---- MODULE Spec2Model ----
(***************************************************************************)
(* Model of lib/doit/reporter.py: the reporter classes FakeReporter,       *)
(* ConsoleReporter, ExecutedOnlyReporter and JsonReporter (with its        *)
(* TaskResult records), driven by a scheduler that calls the seven         *)
(* lifecycle operations in any order.                                      *)
(*                                                                         *)
(* Python values are encoded as follows.  An optional value (None or v) is *)
(* the empty tuple <<>> or the one-element tuple <<v>>.  A text stream     *)
(* (sys.stdout, sys.stderr) is the sequence of chunks written to it, one   *)
(* chunk per print statement, write call or json.dump call.                *)
(***************************************************************************)
EXTENDS Integers, Sequences, FiniteSets, TLC

----------------------------------------------------------------------------
(* Bounds of the model. *)

\* Number of lifecycle calls the scheduler makes on the reporter, not counting
\* a complete_run that ends the run.
MaxCalls == 3

\* The values time.time() returns are in 0..MaxTime (seconds since the epoch).
MaxTime == 1

----------------------------------------------------------------------------
(* Optional values. *)

None == <<>>

Some(v) == <<v>>

\* Python truth value of an optional string: None and "" are false.
Truthy(o) == o # None /\ o[1] # ""

----------------------------------------------------------------------------
(* The external collaborators: tasks, their actions, failure infos. *)

Action(out, err) == [out |-> out, err |-> err]

\* A task printing "hello" on stdout, in two actions.
T1 == [name |-> "T1", title |-> "T1 => hello",
       actions |-> << Action(Some("hel"), Some("")), Action(Some("lo"), None) >>]

\* A task printing "boom" on stderr, in two actions.
T2 == [name |-> "T2", title |-> "T2 => boom",
       actions |-> << Action(None, Some("bo")), Action(Some(""), Some("om")) >>]

\* A group task: no actions.
G == [name |-> "G", title |-> "G",
      actions |-> << >>]

Tasks == {T1, T2, G}

Names == {t.name : t \in Tasks}

\* Failure infos: get_name() and get_msg().
CommandError == [name |-> "CommandError", msg |-> "exit code 1"]

Exceptions == {CommandError}

\* The reporter classes; REPORTERS maps the command line names to three of them.
Classes == {"FakeReporter", "ConsoleReporter", "ExecutedOnlyReporter", "JsonReporter"}

REPORTERS == [sel \in {"default", "executed-only", "json"} |->
                CASE sel = "default" -> "ConsoleReporter"
                  [] sel = "executed-only" -> "ExecutedOnlyReporter"
                  [] sel = "json" -> "JsonReporter"]

\* ExecutedOnlyReporter is a subclass of ConsoleReporter.
IsConsole(cls) == cls \in {"ConsoleReporter", "ExecutedOnlyReporter"}

----------------------------------------------------------------------------
(* State. *)

VARIABLES
    reporter,   \* the class of the reporter instance of this run
    log,        \* FakeReporter.log
    failures,   \* ConsoleReporter.failures
    show_out,   \* ConsoleReporter.show_out
    show_err,   \* ConsoleReporter.show_err
    t_results,  \* JsonReporter.t_results: task name -> TaskResult
    order,      \* the keys of t_results in the dict's iteration order
    stdout,     \* chunks written to sys.stdout
    stderr,     \* chunks written to sys.stderr
    raised,     \* exception raised by the last call ("" when it returned)
    calls       \* history: the lifecycle calls made so far

vars == << reporter, log, failures, show_out, show_err, t_results, order,
           stdout, stderr, raised, calls >>

\* One lifecycle call: operation, task (optional), failure info (optional),
\* and the value time.time() returned during the call (optional).
Call(op, task, exc, at) == [op |-> op, task |-> task, exc |-> exc, at |-> at]

\* The scheduler makes at most MaxCalls calls, and may always end the run by
\* one more complete_run.
CanCall == Len(calls) < MaxCalls

CanComplete == Len(calls) <= MaxCalls

\* The call returned normally.
Returned(c) == /\ calls' = Append(calls, c)
               /\ raised' = ""

\* The call raised the exception e.
Raised(c, e) == /\ calls' = Append(calls, c)
                /\ raised' = e

----------------------------------------------------------------------------
(* Construction. *)

\* FakeReporter.__init__
FakeReporter_init == log = << >>

\* ConsoleReporter.__init__(show_out, show_err)
ConsoleReporter_init == /\ failures = << >>
                        /\ show_out \in BOOLEAN
                        /\ show_err \in BOOLEAN

\* JsonReporter.__init__(show_out, show_err): the flags are ignored.
JsonReporter_init == /\ t_results = << >>
                     /\ order = << >>

Init == /\ reporter \in Classes
        /\ FakeReporter_init
        /\ IF IsConsole(reporter)
             THEN ConsoleReporter_init
             ELSE failures = << >> /\ show_out = FALSE /\ show_err = FALSE
        /\ JsonReporter_init
        /\ stdout = << >>
        /\ stderr = << >>
        /\ raised = ""
        /\ calls = << >>

----------------------------------------------------------------------------
(* FakeReporter *)

FakeState == << log >>

ConsoleState == << failures, show_out, show_err >>

JsonState == << t_results, order >>

Streams == << stdout, stderr >>

FakeReporter_start_task(task) ==
    /\ reporter = "FakeReporter" /\ CanCall
    /\ log' = Append(log, <<"start", task>>)
    /\ Returned(Call("start_task", Some(task), None, None))
    /\ UNCHANGED << reporter, ConsoleState, JsonState, Streams >>

FakeReporter_execute_task(task) ==
    /\ reporter = "FakeReporter" /\ CanCall
    /\ log' = Append(log, <<"execute", task>>)
    /\ Returned(Call("execute_task", Some(task), None, None))
    /\ UNCHANGED << reporter, ConsoleState, JsonState, Streams >>

\* A slip in add_failure: the entry of add_success.
Mutant_FakeReporter_add_failure(task, exception) ==
    /\ reporter = "FakeReporter" /\ CanCall
    /\ log' = Append(log, <<"success", task>>)
    /\ Returned(Call("add_failure", Some(task), Some(exception), None))
    /\ UNCHANGED << reporter, ConsoleState, JsonState, Streams >>

FakeReporter_add_failure(task, exception) ==
    /\ reporter = "FakeReporter" /\ CanCall
    /\ log' = Append(log, <<"fail", task>>)
    /\ Returned(Call("add_failure", Some(task), Some(exception), None))
    /\ UNCHANGED << reporter, ConsoleState, JsonState, Streams >>

FakeReporter_add_success(task) ==
    /\ reporter = "FakeReporter" /\ CanCall
    /\ log' = Append(log, <<"success", task>>)
    /\ Returned(Call("add_success", Some(task), None, None))
    /\ UNCHANGED << reporter, ConsoleState, JsonState, Streams >>

FakeReporter_skip_uptodate(task) ==
    /\ reporter = "FakeReporter" /\ CanCall
    /\ log' = Append(log, <<"skip", task>>)
    /\ Returned(Call("skip_uptodate", Some(task), None, None))
    /\ UNCHANGED << reporter, ConsoleState, JsonState, Streams >>

\* A slip in cleanup_error: the entry padded to a pair, with no task.
Mutant_FakeReporter_cleanup_error(exception) ==
    /\ reporter = "FakeReporter" /\ CanCall
    /\ log' = Append(log, <<"cleanup_error", None>>)
    /\ Returned(Call("cleanup_error", None, Some(exception), None))
    /\ UNCHANGED << reporter, ConsoleState, JsonState, Streams >>


\* The entry is the 1-tuple ('cleanup_error',).
FakeReporter_cleanup_error(exception) ==
    /\ reporter = "FakeReporter" /\ CanCall
    /\ log' = Append(log, <<"cleanup_error">>)
    /\ Returned(Call("cleanup_error", None, Some(exception), None))
    /\ UNCHANGED << reporter, ConsoleState, JsonState, Streams >>

FakeReporter_complete_run ==
    /\ reporter = "FakeReporter" /\ CanComplete
    /\ Returned(Call("complete_run", None, None, None))
    /\ UNCHANGED << reporter, FakeState, ConsoleState, JsonState, Streams >>

FakeNext ==
    \/ \E task \in Tasks : FakeReporter_start_task(task)
    \/ \E task \in Tasks : FakeReporter_execute_task(task)
    \/ \E task \in Tasks, exception \in Exceptions : FakeReporter_add_failure(task, exception)
    \/ \E task \in Tasks : FakeReporter_add_success(task)
    \/ \E task \in Tasks : FakeReporter_skip_uptodate(task)
    \/ \E exception \in Exceptions : FakeReporter_cleanup_error(exception)
    \/ FakeReporter_complete_run

----------------------------------------------------------------------------
(* ConsoleReporter and ExecutedOnlyReporter *)

\* "".join([a.out for a in task.actions if a.out])
RECURSIVE JoinOut(_)
JoinOut(actions) ==
    IF actions = << >> THEN ""
    ELSE (IF Truthy(Head(actions).out) THEN Head(actions).out[1] ELSE "")
         \o JoinOut(Tail(actions))

\* "".join([a.err for a in task.actions if a.err])
RECURSIVE JoinErr(_)
JoinErr(actions) ==
    IF actions = << >> THEN ""
    ELSE (IF Truthy(Head(actions).err) THEN Head(actions).err[1] ELSE "")
         \o JoinErr(Tail(actions))

\* "#"*40 + "\n"
Separator == "########################################\n"

\* print task.title()
PrintTitle(task) == task.title \o "\n"

\* A slip in skip_uptodate: the title printed without its marker.
Mutant_PrintSkipped(task) == task.title \o "\n"

\* print "---", task.title()
PrintSkipped(task) == "--- " \o task.title \o "\n"

\* A slip in the loop body: each flag tested for the other stream.
Mutant_FailureReport(result, so, se) ==
    << Separator,
       result.exception.name \o ": " \o result.task.name \o "\n",
       result.exception.msg,
       "\n" >>
    \o (IF se THEN << JoinOut(result.task.actions) \o "\n" >> ELSE << >>)
    \o (IF so THEN << JoinErr(result.task.actions) \o "\n" >> ELSE << >>)

\* The writes of one iteration of the loop of ConsoleReporter.complete_run.
FailureReport(result, so, se) ==
    << Separator,
       result.exception.name \o ": " \o result.task.name \o "\n",
       result.exception.msg,
       "\n" >>
    \o (IF so THEN << JoinOut(result.task.actions) \o "\n" >> ELSE << >>)
    \o (IF se THEN << JoinErr(result.task.actions) \o "\n" >> ELSE << >>)

\* The writes of the whole loop: for result in self.failures.
RECURSIVE FailuresReport(_, _, _)
FailuresReport(fs, so, se) ==
    IF fs = << >> THEN << >>
    ELSE FailureReport(Head(fs), so, se) \o FailuresReport(Tail(fs), so, se)

ConsoleReporter_start_task(task) ==
    /\ IsConsole(reporter) /\ CanCall
    /\ Returned(Call("start_task", Some(task), None, None))
    /\ UNCHANGED << reporter, FakeState, ConsoleState, JsonState, Streams >>

ConsoleReporter_execute_task(task) ==
    /\ reporter = "ConsoleReporter" /\ CanCall
    /\ stdout' = Append(stdout, PrintTitle(task))
    /\ Returned(Call("execute_task", Some(task), None, None))
    /\ UNCHANGED << reporter, FakeState, ConsoleState, JsonState, stderr >>

\* A slip in add_failure: the failure reported at once as well.
Mutant_ConsoleReporter_add_failure(task, exception) ==
    /\ IsConsole(reporter) /\ CanCall
    /\ failures' = Append(failures, [task |-> task, exception |-> exception])
    /\ stderr' = Append(stderr, exception.name \o ": " \o task.name \o "\n")
    /\ Returned(Call("add_failure", Some(task), Some(exception), None))
    /\ UNCHANGED << reporter, FakeState, show_out, show_err, JsonState, stdout >>

ConsoleReporter_add_failure(task, exception) ==
    /\ IsConsole(reporter) /\ CanCall
    /\ failures' = Append(failures, [task |-> task, exception |-> exception])
    /\ Returned(Call("add_failure", Some(task), Some(exception), None))
    /\ UNCHANGED << reporter, FakeState, show_out, show_err, JsonState, Streams >>

ConsoleReporter_add_success(task) ==
    /\ IsConsole(reporter) /\ CanCall
    /\ Returned(Call("add_success", Some(task), None, None))
    /\ UNCHANGED << reporter, FakeState, ConsoleState, JsonState, Streams >>

ConsoleReporter_skip_uptodate(task) ==
    /\ reporter = "ConsoleReporter" /\ CanCall
    /\ stdout' = Append(stdout, PrintSkipped(task))
    /\ Returned(Call("skip_uptodate", Some(task), None, None))
    /\ UNCHANGED << reporter, FakeState, ConsoleState, JsonState, stderr >>

ConsoleReporter_cleanup_error(exception) ==
    /\ IsConsole(reporter) /\ CanCall
    /\ stderr' = Append(stderr, exception.msg)
    /\ Returned(Call("cleanup_error", None, Some(exception), None))
    /\ UNCHANGED << reporter, FakeState, ConsoleState, JsonState, stdout >>

\* A slip in complete_run: a separator written ahead of the loop.
Mutant_ConsoleReporter_complete_run ==
    /\ IsConsole(reporter) /\ CanComplete
    /\ stderr' = Append(stderr, Separator) \o FailuresReport(failures, show_out, show_err)
    /\ Returned(Call("complete_run", None, None, None))
    /\ UNCHANGED << reporter, FakeState, ConsoleState, JsonState, stdout >>

ConsoleReporter_complete_run ==
    /\ IsConsole(reporter) /\ CanComplete
    /\ stderr' = stderr \o FailuresReport(failures, show_out, show_err)
    /\ Returned(Call("complete_run", None, None, None))
    /\ UNCHANGED << reporter, FakeState, ConsoleState, JsonState, stdout >>

ExecutedOnlyReporter_skip_uptodate(task) ==
    /\ reporter = "ExecutedOnlyReporter" /\ CanCall
    /\ Returned(Call("skip_uptodate", Some(task), None, None))
    /\ UNCHANGED << reporter, FakeState, ConsoleState, JsonState, Streams >>

\* A slip in execute_task: the test of task.actions left out.
Mutant_ExecutedOnlyReporter_execute_task(task) ==
    /\ reporter = "ExecutedOnlyReporter" /\ CanCall
    /\ stdout' = Append(stdout, PrintTitle(task))
    /\ Returned(Call("execute_task", Some(task), None, None))
    /\ UNCHANGED << reporter, FakeState, ConsoleState, JsonState, stderr >>

\* if task.actions: print task.title()
ExecutedOnlyReporter_execute_task(task) ==
    /\ reporter = "ExecutedOnlyReporter" /\ CanCall
    /\ stdout' = IF task.actions # << >> THEN Append(stdout, PrintTitle(task)) ELSE stdout
    /\ Returned(Call("execute_task", Some(task), None, None))
    /\ UNCHANGED << reporter, FakeState, ConsoleState, JsonState, stderr >>

\* The methods ExecutedOnlyReporter inherits, and those of ConsoleReporter itself.
ConsoleInherited ==
    \/ \E task \in Tasks : ConsoleReporter_start_task(task)
    \/ \E task \in Tasks, exception \in Exceptions : ConsoleReporter_add_failure(task, exception)
    \/ \E task \in Tasks : ConsoleReporter_add_success(task)
    \/ \E exception \in Exceptions : ConsoleReporter_cleanup_error(exception)
    \/ ConsoleReporter_complete_run

ConsoleNext ==
    \/ ConsoleInherited
    \/ \E task \in Tasks : ConsoleReporter_execute_task(task)
    \/ \E task \in Tasks : ConsoleReporter_skip_uptodate(task)

\* The methods ExecutedOnlyReporter overrides.
ExecutedOnlyOverrides ==
    \/ \E task \in Tasks : ExecutedOnlyReporter_execute_task(task)
    \/ \E task \in Tasks : ExecutedOnlyReporter_skip_uptodate(task)

ExecutedOnlyNext == ConsoleInherited \/ ExecutedOnlyOverrides

----------------------------------------------------------------------------
(* TaskResult *)

\* The values time.time() may return: the system clock may be set back
\* during a run.
Now == 0..MaxTime

Digit == << "0", "1", "2", "3", "4", "5", "6", "7", "8", "9" >>

TwoDigits(n) == Digit[(n \div 10) + 1] \o Digit[(n % 10) + 1]

\* str(datetime.datetime.utcfromtimestamp(t)), for a whole number of seconds
\* t within the first day of the epoch.
UtcString(t) ==
    "1970-01-01 " \o TwoDigits(t \div 3600) \o ":" \o TwoDigits((t \div 60) % 60)
                  \o ":" \o TwoDigits(t % 60)

\* TaskResult.__init__
TaskResult(name) ==
    [name |-> name, result |-> None, log |-> None, started |-> None,
     elapsed |-> None, started_on |-> None, finished_on |-> None]

\* A slip in execute: a new execution forgets the result of the last one.
Mutant_TaskResult_execute(tr, t) ==
    [tr EXCEPT !.started_on = Some(t), !.result = None, !.log = None]

\* TaskResult.execute, time.time() returning t
TaskResult_execute(tr, t) == [tr EXCEPT !.started_on = Some(t)]

\* A slip in set_result: the two captured streams in each other's section.
Mutant_TaskResult_set_result(tr, task, result, t) ==
    [tr EXCEPT !.finished_on = Some(t),
               !.result = Some(result),
               !.log = Some("--err--\n" \o JoinOut(task.actions)
                            \o "--out--\n" \o JoinErr(task.actions))]

\* A slip in set_result: a result already set is kept (first write wins).
Mutant_TaskResult_set_result_keeps_first(tr, task, result, t) ==
    IF tr.result # None
      THEN tr
      ELSE [tr EXCEPT !.finished_on = Some(t),
                      !.result = Some(result),
                      !.log = Some("--err--\n" \o JoinErr(task.actions)
                                   \o "--out--\n" \o JoinOut(task.actions))]


\* A slip in set_result: the log left unset when the task captured no output.
Mutant_TaskResult_set_result_empty_log(tr, task, result, t) ==
    [tr EXCEPT !.finished_on = Some(t),
               !.result = Some(result),
               !.log = IF JoinErr(task.actions) \o JoinOut(task.actions) = ""
                         THEN None
                         ELSE Some("--err--\n" \o JoinErr(task.actions)
                                   \o "--out--\n" \o JoinOut(task.actions))]


\* TaskResult.set_result, time.time() returning t
TaskResult_set_result(tr, task, result, t) ==
    [tr EXCEPT !.finished_on = Some(t),
               !.result = Some(result),
               !.log = Some("--err--\n" \o JoinErr(task.actions)
                            \o "--out--\n" \o JoinOut(task.actions))]

\* TaskResult.to_dict raises TypeError at line 124 (None - float) when the
\* record was executed and has no result yet.
ToDictRaises(tr) == tr.started_on # None /\ tr.finished_on = None

\* A slip in to_dict: the end time is consumed by the computation of elapsed.
Mutant_TaskResult_after_to_dict(tr) ==
    IF tr.started_on = None THEN tr
    ELSE IF tr.finished_on = None
         THEN [tr EXCEPT !.started = Some(UtcString(tr.started_on[1]))]
         ELSE [tr EXCEPT !.started = Some(UtcString(tr.started_on[1])),
                         !.elapsed = Some(tr.finished_on[1] - tr.started_on[1]),
                         !.finished_on = None]


\* The record after TaskResult.to_dict: line 123 is executed before line 124
\* raises.
TaskResult_after_to_dict(tr) ==
    IF tr.started_on = None THEN tr
    ELSE IF tr.finished_on = None
         THEN [tr EXCEPT !.started = Some(UtcString(tr.started_on[1]))]
         ELSE [tr EXCEPT !.started = Some(UtcString(tr.started_on[1])),
                         !.elapsed = Some(tr.finished_on[1] - tr.started_on[1])]

\* The dict TaskResult.to_dict returns (when it does not raise).
TaskResult_to_dict(tr) ==
    LET after == TaskResult_after_to_dict(tr)
    IN  [name |-> after.name, result |-> after.result, log |-> after.log,
         started |-> after.started, elapsed |-> after.elapsed]

----------------------------------------------------------------------------
(* JsonReporter *)

\* self.t_results[key] = value
SetItem(d, key, value) ==
    [k \in DOMAIN d \cup {key} |-> IF k = key THEN value ELSE d[k]]

\* The sequence s with x inserted so that it becomes element number pos.
InsertAt(s, pos, x) == SubSeq(s, 1, pos - 1) \o << x >> \o SubSeq(s, pos, Len(s))

\* The list comprehension [tr.to_dict() for tr in self.t_results.itervalues()],
\* over the keys `keys` still to visit: the records as to_dict leaves them, the
\* list built, and whether a to_dict raised (which ends the iteration).
RECURSIVE ToDicts(_, _, _)
ToDicts(keys, results, data) ==
    IF keys = << >> THEN [results |-> results, data |-> data, error |-> FALSE]
    ELSE LET tr == results[Head(keys)]
             after == [results EXCEPT ![Head(keys)] = TaskResult_after_to_dict(tr)]
         IN  IF ToDictRaises(tr)
             THEN [results |-> after, data |-> data, error |-> TRUE]
             ELSE ToDicts(Tail(keys), after, Append(data, TaskResult_to_dict(tr)))

\* A new key takes some place in the iteration order of the dict; a key the
\* dict holds keeps its place.
JsonReporter_start_task(task, pos) ==
    /\ reporter = "JsonReporter" /\ CanCall
    /\ pos \in 1..(Len(order) + 1)
    /\ t_results' = SetItem(t_results, task.name, TaskResult(task.name))
    /\ order' = IF task.name \in DOMAIN t_results
                  THEN order
                  ELSE InsertAt(order, pos, task.name)
    /\ Returned(Call("start_task", Some(task), None, None))
    /\ UNCHANGED << reporter, FakeState, ConsoleState, Streams >>

\* A slip in execute_task: a record created for a task that was not started.
Mutant_JsonReporter_execute_task(task, t) ==
    /\ reporter = "JsonReporter" /\ CanCall
    /\ t \in Now
    /\ t_results' = SetItem(t_results, task.name,
                            TaskResult_execute(IF task.name \in DOMAIN t_results
                                                 THEN t_results[task.name]
                                                 ELSE TaskResult(task.name), t))
    /\ order' = IF task.name \in DOMAIN t_results
                  THEN order
                  ELSE Append(order, task.name)
    /\ Returned(Call("execute_task", Some(task), None, Some(t)))
    /\ UNCHANGED << reporter, FakeState, ConsoleState, Streams >>


\* The lookup self.t_results[task.name] raises KeyError for a task that was
\* not started, before time.time() is called.
JsonReporter_execute_task(task, t) ==
    /\ reporter = "JsonReporter" /\ CanCall
    /\ t \in Now
    /\ IF task.name \in DOMAIN t_results
         THEN /\ t_results' = [t_results EXCEPT
                                 ![task.name] = TaskResult_execute(@, t)]
              /\ Returned(Call("execute_task", Some(task), None, Some(t)))
         ELSE /\ Raised(Call("execute_task", Some(task), None, None), "KeyError")
              /\ UNCHANGED t_results
    /\ UNCHANGED << reporter, FakeState, ConsoleState, order, Streams >>

\* The body shared by add_failure, add_success and skip_uptodate.
JsonReporter_set_result(op, task, exc, result, t) ==
    /\ reporter = "JsonReporter" /\ CanCall
    /\ t \in Now
    /\ IF task.name \in DOMAIN t_results
         THEN /\ t_results' = [t_results EXCEPT
                                 ![task.name] = TaskResult_set_result(@, task, result, t)]
              /\ Returned(Call(op, Some(task), exc, Some(t)))
         ELSE /\ Raised(Call(op, Some(task), exc, None), "KeyError")
              /\ UNCHANGED t_results
    /\ UNCHANGED << reporter, FakeState, ConsoleState, order, Streams >>

JsonReporter_add_failure(task, exception, t) ==
    /\ exception \in Exceptions
    /\ JsonReporter_set_result("add_failure", task, Some(exception), "fail", t)

JsonReporter_add_success(task, t) ==
    /\ task \in Tasks
    /\ JsonReporter_set_result("add_success", task, None, "success", t)

\* A slip in skip_uptodate: the event kind FakeReporter records as the result.
Mutant_JsonReporter_skip_uptodate(task, t) ==
    /\ task \in Tasks
    /\ JsonReporter_set_result("skip_uptodate", task, None, "skip", t)

JsonReporter_skip_uptodate(task, t) ==
    /\ task \in Tasks
    /\ JsonReporter_set_result("skip_uptodate", task, None, "up-to-date", t)

\* A slip in cleanup_error: the failure recorded as a result record of its own.
Mutant_JsonReporter_cleanup_error(exception) ==
    /\ reporter = "JsonReporter" /\ CanCall
    /\ t_results' = SetItem(t_results, "cleanup_error",
                            [TaskResult("cleanup_error") EXCEPT !.result = Some("fail")])
    /\ order' = IF "cleanup_error" \in DOMAIN t_results
                  THEN order
                  ELSE Append(order, "cleanup_error")
    /\ Returned(Call("cleanup_error", None, Some(exception), None))
    /\ UNCHANGED << reporter, FakeState, ConsoleState, Streams >>


JsonReporter_cleanup_error(exception) ==
    /\ reporter = "JsonReporter" /\ CanCall
    /\ Returned(Call("cleanup_error", None, Some(exception), None))
    /\ UNCHANGED << reporter, FakeState, ConsoleState, JsonState, Streams >>

\* json.dump(json_data, sys.stdout, indent=4) is one chunk of stdout: the list
\* json_data, a None in it standing for a JSON null.  Nothing is written when a
\* to_dict raises.
JsonReporter_complete_run ==
    /\ reporter = "JsonReporter" /\ CanComplete
    /\ LET run == ToDicts(order, t_results, << >>)
       IN  /\ t_results' = run.results
           /\ IF run.error
                THEN /\ Raised(Call("complete_run", None, None, None), "TypeError")
                     /\ stdout' = stdout
                ELSE /\ Returned(Call("complete_run", None, None, None))
                     /\ stdout' = Append(stdout, run.data)
    /\ UNCHANGED << reporter, FakeState, ConsoleState, order, stderr >>

JsonNext ==
    \/ \E task \in Tasks, pos \in 1..Cardinality(Names) : JsonReporter_start_task(task, pos)
    \/ \E task \in Tasks, t \in Now : JsonReporter_execute_task(task, t)
    \/ \E task \in Tasks, exception \in Exceptions, t \in Now :
          JsonReporter_add_failure(task, exception, t)
    \/ \E task \in Tasks, t \in Now : JsonReporter_add_success(task, t)
    \/ \E task \in Tasks, t \in Now : JsonReporter_skip_uptodate(task, t)
    \/ \E exception \in Exceptions : JsonReporter_cleanup_error(exception)
    \/ JsonReporter_complete_run

----------------------------------------------------------------------------
(* Specifications: one per reporter class, and one for any class. *)

Next == FakeNext \/ ConsoleNext \/ ExecutedOnlyOverrides \/ JsonNext

Spec == Init /\ [][Next]_vars

FakeInit == Init /\ reporter = "FakeReporter"

FakeSpec == FakeInit /\ [][FakeNext]_vars

ConsoleInit == Init /\ reporter = "ConsoleReporter"

ConsoleSpec == ConsoleInit /\ [][ConsoleNext]_vars

ExecutedOnlyInit == Init /\ reporter = "ExecutedOnlyReporter"

ExecutedOnlySpec == ExecutedOnlyInit /\ [][ExecutedOnlyNext]_vars

JsonInit == Init /\ reporter = "JsonReporter"

JsonSpec == JsonInit /\ [][JsonNext]_vars

----------------------------------------------------------------------------
(* Properties of FakeReporter *)

\* The event kind FakeReporter records for each lifecycle operation.
FakeKind(op) ==
    CASE op = "start_task" -> "start"
      [] op = "execute_task" -> "execute"
      [] op = "add_failure" -> "fail"
      [] op = "add_success" -> "success"
      [] op = "skip_uptodate" -> "skip"
      [] op = "cleanup_error" -> "cleanup_error"

IsNotCompleteRun(c) == c.op # "complete_run"

\* The calls made so far, complete_run calls left out.
RecordedCalls == SelectSeq(calls, IsNotCompleteRun)

\* C1: FakeReporter's log is exactly the sequence of the calls other than
\* complete_run, in call order: entry i carries the kind of call i and, when
\* the call has a task, that very task.
C1_LogIsCallSequence ==
    reporter = "FakeReporter" =>
        /\ Len(log) = Len(RecordedCalls)
        /\ \A i \in 1..Len(log) :
              /\ log[i][1] = FakeKind(RecordedCalls[i].op)
              /\ RecordedCalls[i].task # None =>
                    /\ Len(log[i]) = 2
                    /\ log[i][2] = RecordedCalls[i].task[1]

\* A run with a complete_run between recorded calls, an add_failure among them.
C1_Witness ==
    /\ reporter = "FakeReporter"
    /\ Len(log) >= 2
    /\ \E i, j, k \in 1..Len(calls) :
          /\ i < j
          /\ calls[i].op = "complete_run"
          /\ calls[j].op # "complete_run"
          /\ calls[k].op = "add_failure"

----------------------------------------------------------------------------
(* Properties of JsonReporter *)

LastCall == calls[Len(calls)]

IsTerminal(op) == op \in {"add_failure", "add_success", "skip_uptodate"}

\* The value of the result field each terminal event stands for.
ResultOf(op) ==
    CASE op = "add_failure" -> "fail"
      [] op = "add_success" -> "success"
      [] op = "skip_uptodate" -> "up-to-date"

IsCallFor(c, name) == c.task # None /\ c.task[1].name = name

\* The index of the last start_task call for the task name (0: never started).
LastStart(name) ==
    LET starts == { i \in 1..Len(calls) :
                      calls[i].op = "start_task" /\ IsCallFor(calls[i], name) }
    IN  IF starts = {} THEN 0 ELSE CHOOSE i \in starts : \A j \in starts : j <= i

\* The calls made for the task name since its last start_task.
Life(name) ==
    SelectSeq(SubSeq(calls, LastStart(name) + 1, Len(calls)),
              LAMBDA c : IsCallFor(c, name))

\* complete_run was the last call, and it wrote its document.
Serialized == /\ reporter = "JsonReporter"
              /\ calls # << >>
              /\ LastCall.op = "complete_run"
              /\ raised = ""

\* The document the last complete_run wrote.
Document == stdout[Len(stdout)]

\* The objects of the document with the given name.
ObjectsOf(name) == { i \in 1..Len(Document) : Document[i].name = name }

\* The text of the non-empty streams s[1], s[2], ... from s[i] on, concatenated.
RECURSIVE Captured(_, _)
Captured(s, i) ==
    IF i > Len(s) THEN ""
    ELSE (IF s[i] = None THEN "" ELSE s[i][1]) \o Captured(s, i + 1)

CapturedOut(task) == Captured([i \in 1..Len(task.actions) |-> task.actions[i].out], 1)

CapturedErr(task) == Captured([i \in 1..Len(task.actions) |-> task.actions[i].err], 1)

\* start_task, then execute_task, then one terminal event, the clock not set
\* back between the two: the life of the record of the task.
ExecutedOnce(task) ==
    /\ LastStart(task.name) > 0
    /\ Len(Life(task.name)) = 2
    /\ Life(task.name)[1].op = "execute_task"
    /\ IsTerminal(Life(task.name)[2].op)
    /\ Life(task.name)[1].at[1] <= Life(task.name)[2].at[1]

\* C2: a task started, then executed, then finished by one terminal event,
\* with a clock that is not set back, is serialized by complete_run with
\* started and elapsed not null, elapsed >= 0, result the kind of the terminal
\* event, and log "--err--\n" + captured stderr + "--out--\n" + captured stdout.
C2_ExecutedTaskRecord ==
    Serialized =>
        \A task \in Tasks :
            ExecutedOnce(task) =>
                /\ Cardinality(ObjectsOf(task.name)) = 1
                /\ \A i \in ObjectsOf(task.name) :
                      /\ Document[i].started # None
                      /\ Document[i].elapsed # None
                      /\ Document[i].elapsed[1] >= 0
                      /\ Document[i].result = Some(ResultOf(Life(task.name)[2].op))
                      /\ Document[i].log = Some("--err--\n" \o CapturedErr(task)
                                                \o "--out--\n" \o CapturedOut(task))

\* T1 and T2 were each executed and finished, and serialized.
C2_Witness ==
    /\ Serialized
    /\ \E task \in {T1, T2} :
          /\ ExecutedOnce(task)
          /\ Life(task.name)[1].at[1] < Life(task.name)[2].at[1]

\* start_task directly followed by skip_uptodate: the life of the record.
SkippedOnly(task) ==
    /\ LastStart(task.name) > 0
    /\ Len(Life(task.name)) = 1
    /\ Life(task.name)[1].op = "skip_uptodate"

\* C3: a task started and then skipped, never executed, is serialized with
\* started = null, elapsed = null and result = "up-to-date".
C3_SkippedTaskRecord ==
    Serialized =>
        \A task \in Tasks :
            SkippedOnly(task) =>
                /\ Cardinality(ObjectsOf(task.name)) = 1
                /\ \A i \in ObjectsOf(task.name) :
                      /\ Document[i].started = None
                      /\ Document[i].elapsed = None
                      /\ Document[i].result = Some("up-to-date")

C3_Witness ==
    /\ Serialized
    /\ \E task \in Tasks : SkippedOnly(task)

\* The fields of a record that complete_run serializes.
Fields(tr) == << tr.result, tr.log, tr.started, tr.elapsed >>

\* C4 as stated: a record starts with no result, and once a terminal event has
\* set its result, no later call for its task name other than start_task
\* changes its result, log, started or elapsed.
C4_FinalizedNeverChanges ==
    [][\A name \in DOMAIN t_results :
          /\ (LastCall'.op = "start_task" /\ IsCallFor(LastCall', name))
                => t_results'[name].result = None
          /\ (/\ t_results[name].result # None
              /\ IsCallFor(LastCall', name)
              /\ LastCall'.op # "start_task")
                => /\ name \in DOMAIN t_results'
                   /\ Fields(t_results'[name]) = Fields(t_results[name])]_vars

\* C4, amended: a record starts with no result and no log, no record is ever
\* removed, every terminal event for a started task sets the result of its
\* record (the last one wins), and the result and the log of a record are
\* changed only by a terminal event or a start_task for its task name: a later
\* execute_task leaves them as they are.
C4_ResultSetOnlyByTerminalEvents ==
    [][/\ DOMAIN t_results \subseteq DOMAIN t_results'
       /\ \A name \in DOMAIN t_results' :
             /\ (LastCall'.op = "start_task" /\ IsCallFor(LastCall', name))
                   => t_results'[name].result = None /\ t_results'[name].log = None
             /\ (IsTerminal(LastCall'.op) /\ IsCallFor(LastCall', name))
                   => /\ t_results'[name].result = Some(ResultOf(LastCall'.op))
                      /\ t_results'[name].log # None
       /\ \A name \in DOMAIN t_results :
             << t_results'[name].result, t_results'[name].log >>
                   # << t_results[name].result, t_results[name].log >>
                => /\ IsCallFor(LastCall', name)
                   /\ IsTerminal(LastCall'.op) \/ LastCall'.op = "start_task"]_vars

\* A record finalized by one terminal event and then by another: it holds the
\* result of the second event.
C4_Witness ==
    /\ reporter = "JsonReporter"
    /\ \E task \in Tasks :
          /\ LastStart(task.name) > 0
          /\ Len(Life(task.name)) = 2
          /\ IsTerminal(Life(task.name)[1].op)
          /\ IsTerminal(Life(task.name)[2].op)
          /\ Life(task.name)[1].op # Life(task.name)[2].op
          /\ t_results[task.name].result = Some(ResultOf(Life(task.name)[2].op))

\* C5: complete_run returns and writes one object for every record in
\* t_results, whatever the state of the record, with the record's result
\* (null when no terminal event has set it).
C5_CompleteRunSerializesEveryRecord ==
    (reporter = "JsonReporter" /\ calls # << >> /\ LastCall.op = "complete_run") =>
        /\ raised = ""
        /\ stdout # << >>
        /\ \A name \in DOMAIN t_results :
              /\ Cardinality(ObjectsOf(name)) = 1
              /\ \A i \in ObjectsOf(name) :
                    Document[i].result = t_results[name].result

----------------------------------------------------------------------------
(* Properties of all the reporter classes *)

\* complete_run was the only call: an empty run.
EmptyRun == Len(calls) = 1 /\ LastCall.op = "complete_run"

\* C6: complete_run on a reporter that received no call does not raise, for
\* each of the four classes; ConsoleReporter and ExecutedOnlyReporter then
\* have written nothing, JsonReporter has written the empty array.
C6_EmptyRunCompletes ==
    EmptyRun =>
        /\ raised = ""
        /\ stderr = << >>
        /\ IsConsole(reporter) => stdout = << >>
        /\ reporter = "FakeReporter" => stdout = << >> /\ log = << >>
        /\ reporter = "JsonReporter" => stdout = << << >> >>

\* A JsonReporter has completed an empty run and written the empty array.
C6_Witness ==
    /\ EmptyRun
    /\ reporter = "JsonReporter"
    /\ stdout = << << >> >>

----------------------------------------------------------------------------
(* Properties of ConsoleReporter and ExecutedOnlyReporter *)

\* The text of a sequence of chunks.
RECURSIVE Text(_)
Text(chunks) == IF chunks = << >> THEN "" ELSE Head(chunks) \o Text(Tail(chunks))

\* The chunks the step has added to stderr.
Written == SubSeq(stderr', Len(stderr) + 1, Len(stderr'))

\* The add_failure calls made so far.
IsAddFailure(c) == c.op = "add_failure"

FailureCalls == SelectSeq(calls, IsAddFailure)

\* The places of the separator lines in a sequence of chunks, in order.
RECURSIVE SeparatorsFrom(_, _)
SeparatorsFrom(chunks, i) ==
    IF i > Len(chunks) THEN << >>
    ELSE (IF chunks[i] = Separator THEN << i >> ELSE << >>)
         \o SeparatorsFrom(chunks, i + 1)

\* C7: add_failure writes nothing and appends one entry to the failure list;
\* no other call changes the list, and add_failure changes no entry of it;
\* complete_run writes one block per add_failure call made, in the order of
\* the calls, each headed by a separator line and the line naming the failure
\* and the task of the call.
C7_FailuresDeferredToDigest ==
    [][/\ LastCall'.op = "add_failure" =>
             /\ stdout' = stdout
             /\ stderr' = stderr
             /\ failures' = Append(failures, [task |-> LastCall'.task[1],
                                              exception |-> LastCall'.exc[1]])
       /\ LastCall'.op # "add_failure" => failures' = failures
       /\ LastCall'.op = "complete_run" =>
             /\ SubSeq(stderr', 1, Len(stderr)) = stderr
             /\ LET blocks == SeparatorsFrom(Written, 1)
                IN  /\ Len(blocks) = Len(FailureCalls)
                    /\ \A k \in 1..Len(blocks) :
                          Written[blocks[k] + 1] =
                             FailureCalls[k].exc[1].name \o ": "
                                \o FailureCalls[k].task[1].name \o "\n"]_vars

\* Two tasks failed, another succeeded, and the run was completed.
C7_Witness ==
    /\ reporter = "ConsoleReporter"
    /\ Len(calls) = 4
    /\ LastCall.op = "complete_run"
    /\ Len(failures) = 2
    /\ failures[1].task # failures[2].task
    /\ \E i \in 1..3 : calls[i].op = "add_success"

\* What complete_run is to write for one failure entry, as text.
DigestText(entry, so, se) ==
    Separator
    \o entry.exception.name \o ": " \o entry.task.name \o "\n"
    \o entry.exception.msg \o "\n"
    \o (IF so THEN CapturedOut(entry.task) \o "\n" ELSE "")
    \o (IF se THEN CapturedErr(entry.task) \o "\n" ELSE "")

RECURSIVE DigestTexts(_, _, _, _)
DigestTexts(entries, i, so, se) ==
    IF i > Len(entries) THEN ""
    ELSE DigestText(entries[i], so, se) \o DigestTexts(entries, i + 1, so, se)

IsNotEmptyLine(chunk) == chunk # "\n"

\* T1 succeeded and T2 failed with CommandError, both flags set.
Scenario ==
    /\ show_out /\ show_err
    /\ failures = << [task |-> T2, exception |-> CommandError] >>
    /\ \E i \in 1..Len(calls) :
          calls[i].op = "add_success" /\ calls[i].task = Some(T1)

\* C8: for each failure entry in order, complete_run writes the separator
\* line, the line "<failure name>: <task name>", the message, then the
\* captured stdout of the task's actions if show_out is set and the captured
\* stderr if show_err is set, and nothing of a stream whose flag is not set.
\* In the scenario the lines written, the empty ones aside, are the separator,
\* "CommandError: T2", "exit code 1" and "boom".
C8_DigestContent ==
    [][LastCall'.op = "complete_run" =>
          /\ Text(Written) = DigestTexts(failures, 1, show_out, show_err)
          /\ Scenario =>
                SelectSeq(Written, IsNotEmptyLine)
                   = << Separator, "CommandError: T2\n", "exit code 1", "boom\n" >>]_vars

\* The scenario, completed.
C8_Witness ==
    /\ reporter = "ConsoleReporter"
    /\ Scenario
    /\ LastCall.op = "complete_run"
    /\ stderr # << >>

\* C9: execute_task of ExecutedOnlyReporter writes nothing for a task with no
\* actions, and the title of the task, once, on stdout for a task with actions.
C9_TitleOnlyForTasksWithActions ==
    [][(reporter = "ExecutedOnlyReporter" /\ LastCall'.op = "execute_task") =>
          /\ stderr' = stderr
          /\ LastCall'.task[1].actions = << >> => stdout' = stdout
          /\ LastCall'.task[1].actions # << >> =>
                stdout' = Append(stdout, LastCall'.task[1].title \o "\n")]_vars

\* A group task and a task with actions were executed.
C9_Witness ==
    /\ reporter = "ExecutedOnlyReporter"
    /\ \E i, j \in 1..Len(calls) :
          /\ i < j
          /\ calls[i].op = "execute_task" /\ calls[i].task = Some(T1)
          /\ calls[j].op = "execute_task" /\ calls[j].task = Some(G)
    /\ Len(stdout) = 1

\* A task with actions was executed in the run.
IsExecution(c) == c.op = "execute_task" /\ c.task[1].actions # << >>

\* C10: a run of ExecutedOnlyReporter ending in complete_run in which no task
\* with actions was executed has written nothing, on stdout and on stderr.
C10_NoOutputUnlessExecuted ==
    (/\ reporter = "ExecutedOnlyReporter"
     /\ calls # << >>
     /\ LastCall.op = "complete_run"
     /\ SelectSeq(calls, IsExecution) = << >>)
        => Text(stdout) = "" /\ Text(stderr) = ""

\* The calls that write on stdout, for ConsoleReporter.
IsProgress(c) == c.op \in {"execute_task", "skip_uptodate"}

\* The line a call of execute_task or skip_uptodate is to write.
ProgressLine(c) ==
    IF c.op = "execute_task"
      THEN c.task[1].title \o "\n"
      ELSE "--- " \o c.task[1].title \o "\n"

\* C11: the content of stdout of a ConsoleReporter is, in call order, the
\* title line of each execute_task call (with or without actions) and the
\* line "--- <title>" of each skip_uptodate call; no other call adds to it.
C11_StdoutIsProgressLines ==
    reporter = "ConsoleReporter" =>
        LET progress == SelectSeq(calls, IsProgress)
        IN  /\ Len(stdout) = Len(progress)
            /\ \A i \in 1..Len(stdout) : stdout[i] = ProgressLine(progress[i])

\* A group task executed, a task skipped, a failure and the end of the run.
C11_Witness ==
    /\ reporter = "ConsoleReporter"
    /\ Len(calls) = 4
    /\ LastCall.op = "complete_run"
    /\ \E i, j, k \in 1..3 :
          /\ calls[i].op = "execute_task" /\ calls[i].task = Some(G)
          /\ calls[j].op = "skip_uptodate"
          /\ calls[k].op = "add_failure"
    /\ Len(stdout) = 2


----------------------------------------------------------------------------
(* Properties of JsonReporter: the mapping and the document *)

\* The task names passed to start_task so far.
StartedNames == { calls[i].task[1].name :
                    i \in { j \in 1..Len(calls) : calls[j].op = "start_task" } }

\* The mapping holds exactly one record for each started name, under its name,
\* and the iteration order visits each key once.
OneRecordPerStartedName ==
    /\ DOMAIN t_results = StartedNames
    /\ \A name \in DOMAIN t_results : t_results[name].name = name
    /\ Len(order) = Cardinality(DOMAIN t_results)
    /\ { order[i] : i \in 1..Len(order) } = DOMAIN t_results

\* C12: the mapping holds exactly one record per distinct name passed to
\* start_task; a start_task for a name replaces its record by a fresh one
\* (result, log, started and elapsed unset); and a complete_run call emits
\* exactly one object per distinct started name.
C12_OneObjectPerStartedName ==
    reporter = "JsonReporter" =>
        /\ OneRecordPerStartedName
        /\ (calls # << >> /\ LastCall.op = "start_task") =>
              t_results[LastCall.task[1].name] = TaskResult(LastCall.task[1].name)
        /\ (calls # << >> /\ LastCall.op = "complete_run") =>
              /\ stdout # << >>
              /\ Len(Document) = Cardinality(StartedNames)
              /\ \A name \in StartedNames : Cardinality(ObjectsOf(name)) = 1

\* The part of C12 about the mapping alone.
C12_MappingPart ==
    reporter = "JsonReporter" =>
        /\ OneRecordPerStartedName
        /\ (calls # << >> /\ LastCall.op = "start_task") =>
              t_results[LastCall.task[1].name] = TaskResult(LastCall.task[1].name)
        /\ Serialized =>
              /\ Len(Document) = Cardinality(StartedNames)
              /\ \A name \in StartedNames : Cardinality(ObjectsOf(name)) = 1


IsCompleteRun(c) == c.op = "complete_run"

\* The complete_run calls made so far.
CompleteRunCalls == SelectSeq(calls, IsCompleteRun)

\* C13: only complete_run writes on stdout, so stdout is empty as long as
\* complete_run was not called, and each complete_run call writes exactly one
\* array: stdout holds one document per complete_run call made.
C13_OneArrayPerCompleteRun ==
    reporter = "JsonReporter" => Len(stdout) = Len(CompleteRunCalls)

\* The part of C13 that holds: a step of another operation leaves stdout
\* alone, and a complete_run step that returns appends one array.
C13_WritesOnlyAtCompletion ==
    [][reporter = "JsonReporter" =>
          IF IsCompleteRun(calls'[Len(calls')]) /\ raised' = ""
            THEN /\ Len(stdout') = Len(stdout) + 1
                 /\ SubSeq(stdout', 1, Len(stdout)) = stdout
            ELSE stdout' = stdout]_vars


\* C14: serializing the same set of records twice, with no call in between,
\* yields the same document: after a complete_run that returned, a second
\* serialization of the records as the first one left them returns the
\* document just written and changes no record, and a complete_run call that
\* follows a complete_run call writes the document again.
C14_SerializationIdempotent ==
    [][(reporter = "JsonReporter" /\ IsCompleteRun(calls'[Len(calls')]) /\ raised' = "") =>
          LET again == ToDicts(order', t_results', << >>)
          IN  /\ ~again.error
              /\ again.data = stdout'[Len(stdout')]
              /\ again.results = t_results'
              /\ Serialized => stdout'[Len(stdout')] = Document]_vars

\* Two complete_run calls in a row wrote the same document, of one finalized
\* record.
C14_Witness ==
    /\ Serialized
    /\ Len(calls) = 4
    /\ calls[3].op = "complete_run"
    /\ Len(stdout) = 2
    /\ stdout[1] = stdout[2]
    /\ Len(Document) = 1
    /\ Document[1].result # None


\* C15: a cleanup_error call returns, leaves the mapping, its iteration order
\* and every record unchanged and writes nothing; so the array a complete_run
\* would emit is the same before and after the call.
C15_CleanupErrorIsNoOp ==
    [][(reporter = "JsonReporter" /\ calls'[Len(calls')].op = "cleanup_error") =>
          /\ raised' = ""
          /\ t_results' = t_results
          /\ order' = order
          /\ stdout' = stdout
          /\ stderr' = stderr
          /\ ToDicts(order', t_results', << >>) = ToDicts(order, t_results, << >>)]_vars

\* cleanup_error called between the terminal event of a task and the end of
\* the run: the document holds the one object of the task.
C15_Witness ==
    /\ Serialized
    /\ Len(calls) = 4
    /\ calls[1].op = "start_task"
    /\ IsTerminal(calls[2].op)
    /\ calls[3].op = "cleanup_error"
    /\ Len(Document) = 1
    /\ stderr = << >>


----------------------------------------------------------------------------
(* Properties of FakeReporter: the shape of the entries *)

\* The event kinds of the operations that take a task.
TaskKinds == {"start", "execute", "fail", "success", "skip"}

\* C16 as stated: every entry of the log is a pair (event kind, task or
\* none), the entry of cleanup_error included.
C16_EveryEntryIsAPair ==
    reporter = "FakeReporter" => \A i \in 1..Len(log) : Len(log[i]) = 2

\* C16 amended: the entry of an operation that takes a task is the pair
\* (event kind, task); the entry of cleanup_error is the 1-tuple of its kind,
\* with no task component.
C16_EntryShapes ==
    reporter = "FakeReporter" =>
        /\ Len(log) = Len(RecordedCalls)
        /\ \A i \in 1..Len(log) :
              IF RecordedCalls[i].op = "cleanup_error"
                THEN log[i] = <<"cleanup_error">>
                ELSE /\ Len(log[i]) = 2
                     /\ log[i][1] \in TaskKinds
                     /\ log[i][2] \in Tasks

\* A cleanup_error entry between the entries of two operations on a task.
C16_Witness ==
    /\ reporter = "FakeReporter"
    /\ Len(log) = 3
    /\ Len(log[1]) = 2
    /\ log[2] = <<"cleanup_error">>
    /\ Len(log[3]) = 2


----------------------------------------------------------------------------
(* Properties of JsonReporter: terminal events *)

IsTerminalCall(c) == IsTerminal(c.op)

\* The terminal events called for the task name since its last start_task.
TerminalEvents(name) == SelectSeq(Life(name), IsTerminalCall)

\* The log a terminal event stores: the captured stderr, then the captured
\* stdout, of the task it was called with.
LogOf(c) == "--err--\n" \o CapturedErr(c.task[1]) \o "--out--\n" \o CapturedOut(c.task[1])

\* C17: a terminal event called for a started task does not raise, however
\* many terminal events came before it, and the result and log of the record,
\* and of its serialized object, are those of the last terminal event called.
C17_LastWriteWins ==
    reporter = "JsonReporter" =>
        /\ (/\ calls # << >>
            /\ IsTerminalCall(LastCall)
            /\ LastStart(LastCall.task[1].name) > 0) => raised = ""
        /\ \A name \in DOMAIN t_results :
              LET events == TerminalEvents(name)
                  last == events[Len(events)]
              IN  events # << >> =>
                    /\ t_results[name].result = Some(ResultOf(last.op))
                    /\ t_results[name].log = Some(LogOf(last))
                    /\ Serialized =>
                          \A i \in ObjectsOf(name) :
                              /\ Document[i].result = Some(ResultOf(last.op))
                              /\ Document[i].log = Some(LogOf(last))

\* A task started, failed, then reported successful, and the run serialized:
\* the object says success.
C17_Witness ==
    /\ Serialized
    /\ Len(calls) = 4
    /\ calls[1].op = "start_task" /\ calls[1].task = Some(T2)
    /\ calls[2].op = "add_failure" /\ calls[2].task = Some(T2)
    /\ calls[3].op = "add_success" /\ calls[3].task = Some(T2)
    /\ Len(Document) = 1
    /\ Document[1].result = Some("success")


----------------------------------------------------------------------------
(* Properties of JsonReporter: elapsed *)

IsExecuteCall(c) == c.op = "execute_task"

\* The execute_task calls for the task name since its last start_task.
Executions(name) == SelectSeq(Life(name), IsExecuteCall)

\* The clock readings of the calls never decrease along the run.
ClockNotSetBack ==
    \A i, j \in 1..Len(calls) :
        (i < j /\ calls[i].at # None /\ calls[j].at # None) =>
            calls[i].at[1] <= calls[j].at[1]

\* The elapsed of the object is the time of the last terminal event minus the
\* time of the last execute_task of the record.
ElapsedIsDifference(name, i) ==
    LET events == TerminalEvents(name)
        executes == Executions(name)
    IN  Document[i].elapsed # None =>
            /\ events # << >>
            /\ executes # << >>
            /\ Document[i].elapsed[1] =
                   events[Len(events)].at[1] - executes[Len(executes)].at[1]

\* C18: whatever the order of the calls on a started task, with a clock that
\* never decreases, a serialized elapsed that is not null is the time of the
\* terminal event minus the time of the execute event and is >= 0; and
\* elapsed is null exactly when execute_task was never called for the record.
C18_ElapsedNonNegative ==
    (Serialized /\ ClockNotSetBack) =>
        \A name \in DOMAIN t_results :
            \A i \in ObjectsOf(name) :
                /\ (Document[i].elapsed = None) <=> (Executions(name) = << >>)
                /\ ElapsedIsDifference(name, i)
                /\ Document[i].elapsed # None => Document[i].elapsed[1] >= 0

\* The part of C18 that holds: the difference, and when elapsed is null.
C18_ElapsedPart ==
    Serialized =>
        \A name \in DOMAIN t_results :
            \A i \in ObjectsOf(name) :
                /\ (Document[i].elapsed = None) <=> (Executions(name) = << >>)
                /\ ElapsedIsDifference(name, i)


----------------------------------------------------------------------------
(* Properties of JsonReporter: log and result *)

\* C19: in every state the log of a record is unset exactly when its result
\* is unset; a start_task call leaves both unset, and an execute_task call
\* changes neither.
C19_LogIffResult ==
    reporter = "JsonReporter" =>
        /\ \A name \in DOMAIN t_results :
              (t_results[name].log = None) <=> (t_results[name].result = None)
        /\ (calls # << >> /\ LastCall.op = "start_task") =>
              /\ t_results[LastCall.task[1].name].log = None
              /\ t_results[LastCall.task[1].name].result = None
        /\ \A name \in DOMAIN t_results :
              (Life(name) # << >> /\ \A k \in 1..Len(Life(name)) : IsExecuteCall(Life(name)[k])) =>
                  /\ t_results[name].log = None
                  /\ t_results[name].result = None

\* The same for execute_task as a step: it changes neither log nor result of
\* any record.
C19_ExecuteKeepsLogAndResult ==
    [][(reporter = "JsonReporter" /\ calls'[Len(calls')].op = "execute_task") =>
          /\ DOMAIN t_results' = DOMAIN t_results
          /\ \A name \in DOMAIN t_results :
                /\ t_results'[name].log = t_results[name].log
                /\ t_results'[name].result = t_results[name].result]_vars

\* A group task, which captures no output, skipped: its log is set, as its
\* result is; another record, started only, has neither.
C19_Witness ==
    /\ reporter = "JsonReporter"
    /\ DOMAIN t_results = {G.name, T1.name}
    /\ t_results[G.name].result # None
    /\ t_results[G.name].log = Some("--err--\n--out--\n")
    /\ t_results[T1.name].result = None
    /\ t_results[T1.name].log = None


----------------------------------------------------------------------------
(* Properties of JsonReporter: tasks that were not started *)

\* The operations that look the record of their task up.
LooksUp(op) == op = "execute_task" \/ IsTerminal(op)

\* C20: execute_task, add_failure, add_success or skip_uptodate called for a
\* task name that start_task was never called for raises KeyError, creates no
\* record, and leaves the mapping, its records and the streams unchanged.
C20_UnstartedTaskRaises ==
    [][(/\ reporter = "JsonReporter"
        /\ LooksUp(calls'[Len(calls')].op)
        /\ calls'[Len(calls')].task[1].name \notin StartedNames) =>
          /\ raised' = "KeyError"
          /\ t_results' = t_results
          /\ order' = order
          /\ stdout' = stdout
          /\ stderr' = stderr]_vars

\* A terminal event for a task that was not started, after another task was
\* started and executed: KeyError, and the one record is as it was.
C20_Witness ==
    /\ reporter = "JsonReporter"
    /\ Len(calls) = 3
    /\ calls[1].op = "start_task" /\ calls[1].task = Some(T1)
    /\ calls[2].op = "execute_task" /\ calls[2].task = Some(T1)
    /\ IsTerminal(calls[3].op) /\ calls[3].task = Some(T2)
    /\ raised = "KeyError"
    /\ DOMAIN t_results = {T1.name}
    /\ t_results[T1.name].started_on # None
    /\ t_results[T1.name].result = None

====
